---- MODULE Spec2Model ----
(***************************************************************************)
(* Frame-driven simulation engine of the gesture arcade game               *)
(* (src/components/GameCanvas.tsx): the draw loop, the gesture callback    *)
(* onResults and restartGame.                                              *)
(*                                                                         *)
(* Conventions of the model                                                *)
(*  - Time is in milliseconds.  Every Date.now() read of one draw() call   *)
(*    is the same instant, the variable now after the tick's advance.      *)
(*  - Alpha and decay are in hundredths (alpha 1.0 is 100, the demon fade  *)
(*    steps 0.05 and 0.1 are 5 and 10).  The program computes them in      *)
(*    IEEE doubles; the only comparisons whose outcome differs from the    *)
(*    decimal one are alpha <= 0 after subtracting 0.1 down to a nominal   *)
(*    zero, where a positive rounding residue is left (1 - 10 * 0.1 is     *)
(*    1.4e-16).  ParticleIsDead and IsDead account for it.                 *)
(*  - particles is the particle array run-length encoded, in array order: *)
(*    a group stands for n consecutive particles pushed with the same      *)
(*    type, alpha and decay, a run for k consecutive explosions of one     *)
(*    tick.  Position, velocity, hue and size only feed the renderer and   *)
(*    are left out.                                                        *)
(*  - Normalised camera coordinates are in thousandths.                    *)
(*  - draw() is the closure of the first render (the requestAnimationFrame *)
(*    loop is started once, in an effect with no dependencies), so the     *)
(*    gameOver and victory it reads are the values of that first render.   *)
(*  - sounds and ev are observers: the audio collaborator's calls in the   *)
(*    current session and the calls made by the most recent tick.          *)
(***************************************************************************)
EXTENDS Integers, Sequences, FiniteSets, TLC

\* ---- program constants ------------------------------------------------
MAX_LIVES == 3
VICTORY_KILLS == 30
DEMON_ESCAPE_TIME == 5000
MAX_PARTICLES == 800
COMBO_TIMEOUT == 1500
MAX_DEMONS == 8
TRIGGER_DEBOUNCE == 250
FINALE_INTERVAL == 15
PHASE_LENGTH == 400
KILL_RADIUS == 120
SHAKE_DURATION == 150
FIST_THRESHOLD == 250
ALPHA_ONE == 100
FADE_IN_STEP == 5
FADE_OUT_STEP == 10

\* ---- the canvas and the clock at construction -------------------------
Width == 1600
Height == 900
T0 == 10000

UNKNOWN == "UNKNOWN"
FIST == "FIST"
OPEN == "OPEN"
HandLabels == <<"Left", "Right">>
Labels == {"Left", "Right"}

VARIABLES now, handState, prevHandState, handPos, lastTriggerTime,
          grandFinale, demons, lastDemonSpawn, killCount, livesRef, lives,
          gameOver, victory, victorySoundPlayed, gameOverSoundPlayed,
          particles, screenShake, comboCount, lastKillTime,
          sounds, ev, lastOp

vars == <<now, handState, prevHandState, handPos, lastTriggerTime,
          grandFinale, demons, lastDemonSpawn, killCount, livesRef, lives,
          gameOver, victory, victorySoundPlayed, gameOverSoundPlayed,
          particles, screenShake, comboCount, lastKillTime,
          sounds, ev, lastOp>>

Max(a, b) == IF a > b THEN a ELSE b
Min(a, b) == IF a < b THEN a ELSE b

\* The values of the gameOver and victory state that draw() and the helpers
\* it calls close over: those of the first render.
drawGameOver == FALSE
drawVictory == FALSE

NoEvents ==
  [spawned |-> {}, escaped |-> {}, escapeCalls |-> 0,
   finaleKills |-> {}, blasts |-> {}, handKills |-> {}, edges |-> {},
   fired |-> {}, explosions |-> {}]

NoSounds == [victory |-> 0, gameOver |-> 0]

\* ---- particles ---------------------------------------------------------
\* n consecutive particles of one type pushed by one triggerExplosion call.
Group(type, n, decay) ==
  [type |-> type, n |-> n, alpha |-> ALPHA_ONE, decay |-> decay]

\* Mutant: an explosion whose smoke decays by 0.01 per tick.
ExplosionParticlesSlowSmoke ==
  << Group("core", 1, 15), Group("glow", 1, 10), Group("spark", 8, 9),
     Group("flame", 6, 8), Group("flame", 10, 7), Group("debris", 10, 5),
     Group("trail", 6, 6), Group("smoke", 3, 1) >>

\* Mutant: an explosion with two smoke puffs.
ExplosionParticlesLessSmoke ==
  << Group("core", 1, 15), Group("glow", 1, 10), Group("spark", 8, 9),
     Group("flame", 6, 8), Group("flame", 10, 7), Group("debris", 10, 5),
     Group("trail", 6, 6), Group("smoke", 2, 2) >>

\* The particles one triggerExplosion call pushes, in push order.
ExplosionParticles ==
  << Group("core", 1, 15), Group("glow", 1, 10), Group("spark", 8, 9),
     Group("flame", 6, 8), Group("flame", 10, 7), Group("debris", 10, 5),
     Group("trail", 6, 6), Group("smoke", 3, 2) >>

\* particles is a sequence of runs: run r stands for the particles of r.k
\* consecutive triggerExplosion calls of one tick, r.groups being what is
\* left of each of them.
RECURSIVE GroupsSize(_, _)
GroupsSize(gs, i) ==
  IF i > Len(gs) THEN 0 ELSE gs[i].n + GroupsSize(gs, i + 1)

RECURSIVE CountFrom(_, _)
CountFrom(ps, i) ==
  IF i > Len(ps) THEN 0
  ELSE ps[i].k * GroupsSize(ps[i].groups, 1) + CountFrom(ps, i + 1)

\* particles.current.length
ParticleCount(ps) == CountFrom(ps, 1)

\* The pushes of one triggerExplosion call.
PushExplosion(ps) ==
  IF Len(ps) > 0 /\ ps[Len(ps)].groups = ExplosionParticles
  THEN [ps EXCEPT ![Len(ps)].k = @ + 1]
  ELSE Append(ps, [k |-> 1, groups |-> ExplosionParticles])

\* Mutant: the cap test against a larger ceiling.
ExplosionSuppressedLate(count) == count > MAX_PARTICLES + 100

\* Mutant: no cap test.
ExplosionNeverSuppressed(count) == FALSE

\* The cap test at the head of triggerExplosion.
ExplosionSuppressed(count) == count > MAX_PARTICLES

\* triggerExplosion on the world record w, whose field length is
\* particles.current.length; the call is logged in w.ev.
TriggerExplosion(w) ==
  IF ExplosionSuppressed(w.length)
  THEN [w EXCEPT !.ev.explosions = @ \cup
          {[before |-> w.length, after |-> w.length, audio |-> 0]}]
  ELSE [w EXCEPT !.particles = PushExplosion(@),
                 !.length = @ + GroupsSize(ExplosionParticles, 1),
                 !.ev.explosions = @ \cup
          {[before |-> w.length,
            after |-> w.length + GroupsSize(ExplosionParticles, 1),
            audio |-> 1]}]

RECURSIVE Explosions(_, _)
Explosions(w, k) ==
  IF k = 0 THEN w ELSE Explosions(TriggerExplosion(w), k - 1)

\* Particle.update followed by the in-place compaction of draw().
ParticleUpdate(g) == [g EXCEPT !.alpha = @ - g.decay]
\* alpha <= 0 in doubles: at a nominal zero the residue is positive for the
\* decay 0.1 (the glow) and not for 0.05 and 0.02 (debris, smoke).
ParticleIsDead(g) == g.alpha < 0 \/ (g.alpha = 0 /\ g.decay # 10)

\* Mutant: a compaction that tests isDead before the update.
UpdateGroupsTestFirst(gs) ==
  LET alive == SelectSeq(gs, LAMBDA g : ~ParticleIsDead(g))
  IN [i \in 1..Len(alive) |-> ParticleUpdate(alive[i])]

UpdateGroups(gs) ==
  SelectSeq([i \in 1..Len(gs) |-> ParticleUpdate(gs[i])],
            LAMBDA g : ~ParticleIsDead(g))

UpdateParticles(ps) ==
  SelectSeq([i \in 1..Len(ps) |-> [ps[i] EXCEPT !.groups = UpdateGroups(@)]],
            LAMBDA r : Len(r.groups) > 0)

\* ---- demons ------------------------------------------------------------
\* fadeFrom is the alpha at which the fade-out began; it stands for the
\* rounding residue the double alpha carries (see IsDead).
\* new Demon(x, y, size) at time t; spawnTime identifies the demon (a tick
\* spawns at most one and the clock advances with every tick).
Demon(x, y, size, t) ==
  [x |-> x, y |-> y, size |-> size, spawnTime |-> t, alpha |-> 0,
   isDying |-> FALSE, deathTime |-> 0, escaped |-> FALSE, fadeFrom |-> 0]

\* Mutant: the escape fires at the timeout itself.
ShouldEscapeAtTimeout(d, t) ==
  ~d.isDying /\ ~d.escaped /\ t - d.spawnTime >= DEMON_ESCAPE_TIME

\* Mutant: the escape check ignores the dying flag.
ShouldEscapeWhileDying(d, t) ==
  ~d.escaped /\ t - d.spawnTime > DEMON_ESCAPE_TIME

ShouldEscape(d, t) ==
  ~d.isDying /\ ~d.escaped /\ t - d.spawnTime > DEMON_ESCAPE_TIME

\* Mutant: an escape that does not start the fade-out.
EscapeWithoutDying(d) == [d EXCEPT !.escaped = TRUE]

Escape(d) ==
  [d EXCEPT !.escaped = TRUE, !.isDying = TRUE, !.fadeFrom = d.alpha]

DemonUpdate(d) ==
  LET a1 == IF ~d.isDying /\ d.alpha < ALPHA_ONE
            THEN Min(ALPHA_ONE, d.alpha + FADE_IN_STEP) ELSE d.alpha
  IN [d EXCEPT !.alpha = IF d.isDying THEN a1 - FADE_OUT_STEP ELSE a1]

Kill(d, t) ==
  [d EXCEPT !.isDying = TRUE, !.deathTime = t, !.fadeFrom = d.alpha]

\* alpha <= 0 in doubles: a fade-out by steps of 0.1 that began at 0.6 or
\* above reaches its nominal zero with a positive residue, one that began
\* lower with none.
IsDead(d) ==
  d.isDying /\ (d.alpha < 0 \/ (d.alpha = 0 /\ d.fadeFrom < 60))

\* spawnDemon: the position is drawn inside the margin-inset rectangle.
InSpawnArea(x, y) ==
  /\ 150 <= x /\ x < Width - 150
  /\ 2 * 150 <= 2 * y /\ 2 * y < 2 * 150 + (2 * Height - 5 * 150)

SpawnDemon(w, x, y, size, t) ==
  [w EXCEPT !.demons = Append(@, Demon(x, y, size, t)),
            !.ev.spawned = @ \cup {t}]

TriggerScreenShake(w, intensity, duration, t) ==
  [w EXCEPT !.screenShake =
     [intensity |-> intensity, duration |-> duration, startTime |-> t]]

\* dist < radius + demon.size * 0.5, both sides doubled and squared.
InKillRange(d, x, y, radius) ==
  4 * ((x - d.x) * (x - d.x) + (y - d.y) * (y - d.y))
    < (2 * radius + d.size) * (2 * radius + d.size)

\* Mutant: a combo window that includes its end point.
ComboAfterKillInclusive(combo, lastKill, t) ==
  IF t - lastKill <= COMBO_TIMEOUT THEN combo + 1 ELSE 1

\* The combo branch of killDemonsNearPoint.
ComboAfterKill(combo, lastKill, t) ==
  IF t - lastKill < COMBO_TIMEOUT THEN combo + 1 ELSE 1

RECURSIVE KillNearFrom(_, _, _, _, _, _)
KillNearFrom(w, i, x, y, radius, t) ==
  IF i > Len(w.demons) THEN w
  ELSE LET d == w.demons[i]
           hit == ~d.isDying /\ InKillRange(d, x, y, radius)
           combo == ComboAfterKill(w.comboCount, w.lastKillTime, t)
           w1 == [w EXCEPT !.demons[i] = Kill(d, t),
                           !.killCount = @ + 1,
                           !.comboCount = combo,
                           !.lastKillTime = t,
                           !.ev.handKills = @ \cup {d.spawnTime}]
           w2 == TriggerScreenShake(w1, 8 + combo * 2, SHAKE_DURATION, t)
       IN KillNearFrom(IF hit THEN w2 ELSE w, i + 1, x, y, radius, t)

KillDemonsNearPoint(w, x, y, radius, t) == KillNearFrom(w, 1, x, y, radius, t)

\* ev.blasts logs, for each demon killed, the size of the pool before the
\* triggerExplosion call at the demon and the number of particles it added.
RECURSIVE ClearFrom(_, _, _)
ClearFrom(w, i, t) ==
  IF i > Len(w.demons) THEN w
  ELSE LET d == w.demons[i]
           w1 == [w EXCEPT !.demons[i] = Kill(d, t),
                           !.ev.finaleKills = @ \cup {d.spawnTime}]
           w2 == TriggerExplosion(w1)
           w3 == [w2 EXCEPT !.killCount = @ + 1,
                            !.ev.blasts = @ \cup
                              {[demon |-> d.spawnTime, before |-> w1.length,
                                added |-> w2.length - w1.length]}]
       IN ClearFrom(IF ~d.isDying THEN w3 ELSE w, i + 1, t)

\* Mutant: a clear that passes over the first demon of the pool.
ClearAllButFirst(w, t) == ClearFrom(w, 2, t)

ClearAllDemons(w, t) == ClearFrom(w, 1, t)

\* ---- session -----------------------------------------------------------
\* Mutant: the victory check without its one-shot marker.
VictoryDueUnmarked(w) == w.killCount >= VICTORY_KILLS /\ ~drawVictory

\* Mutant: a victory check that needs more than the quota.
VictoryDueAboveQuota(w) ==
  w.killCount > VICTORY_KILLS /\ ~drawVictory /\ ~w.victorySoundPlayed

VictoryDue(w) ==
  w.killCount >= VICTORY_KILLS /\ ~drawVictory /\ ~w.victorySoundPlayed

CheckVictory(w) ==
  IF VictoryDue(w)
  THEN [w EXCEPT !.victorySoundPlayed = TRUE, !.victory = TRUE,
                 !.sounds.victory = @ + 1]
  ELSE w

\* Mutant: the game-over check without its one-shot marker.
GameOverDueUnmarked(w) == w.livesRef <= 0 /\ ~drawGameOver

GameOverDue(w) ==
  w.livesRef <= 0 /\ ~drawGameOver /\ ~w.gameOverSoundPlayed

HandleDemonEscape(w) ==
  LET w1 == [w EXCEPT !.livesRef = @ - 1, !.lives = w.livesRef - 1,
                      !.ev.escapeCalls = @ + 1]
  IN IF GameOverDue(w1)
     THEN [w1 EXCEPT !.gameOverSoundPlayed = TRUE, !.gameOver = TRUE,
                     !.sounds.gameOver = @ + 1]
     ELSE w1

\* Mutant: a demon loop that reads the current gameOver and victory.
RECURSIVE DemonLoopGuarded(_, _, _, _)
DemonLoopGuarded(w, i, kept, t) ==
  IF i > Len(w.demons) THEN [w EXCEPT !.demons = kept]
  ELSE LET d == w.demons[i]
           active == ~w.gameOver /\ ~w.victory
           esc == active /\ ShouldEscape(d, t)
           d1 == IF esc THEN Escape(d) ELSE d
           w1 == IF esc
                 THEN HandleDemonEscape(
                        [w EXCEPT !.ev.escaped = @ \cup {d.spawnTime}])
                 ELSE w
           d2 == IF active THEN DemonUpdate(d1) ELSE d1
       IN DemonLoopGuarded(w1, i + 1,
                           IF IsDead(d2) THEN kept ELSE Append(kept, d2), t)

\* The demon loop of draw(): escape check, update, compaction.
RECURSIVE DemonLoop(_, _, _, _)
DemonLoop(w, i, kept, t) ==
  IF i > Len(w.demons) THEN [w EXCEPT !.demons = kept]
  ELSE LET d == w.demons[i]
           active == ~drawGameOver /\ ~drawVictory
           esc == active /\ ShouldEscape(d, t)
           d1 == IF esc THEN Escape(d) ELSE d
           w1 == IF esc
                 THEN HandleDemonEscape(
                        [w EXCEPT !.ev.escaped = @ \cup {d.spawnTime}])
                 ELSE w
           d2 == IF active THEN DemonUpdate(d1) ELSE d1
       IN DemonLoop(w1, i + 1,
                    IF IsDead(d2) THEN kept ELSE Append(kept, d2), t)

\* ---- gestures ----------------------------------------------------------
\* avgDist < 0.25 is a fist, anything else an open hand.
Classify(avgDist) == IF avgDist < FIST_THRESHOLD THEN FIST ELSE OPEN

\* One entry of results.multiHandLandmarks / multiHandedness.
HandEntry(label, wrist, avgDist) ==
  [label |-> label, wrist |-> wrist, avgDist |-> avgDist]

RECURSIVE ApplyHands(_, _, _, _)
ApplyHands(hands, i, st, pos) ==
  IF i > Len(hands) THEN <<st, pos>>
  ELSE LET h == hands[i]
       IN ApplyHands(hands, i + 1,
                     [st EXCEPT ![h.label] = Classify(h.avgDist)],
                     [pos EXCEPT ![h.label] = h.wrist])

FoundHands(hands) == {hands[i].label : i \in 1..Len(hands)}

\* onResults(results).  hasLists is false for a result that carries no
\* multiHandLandmarks / multiHandedness.
OnResults(results) ==
  /\ IF results.hasLists
     THEN LET got == ApplyHands(results.hands, 1, handState, handPos)
          IN /\ handState' =
                  [l \in Labels |->
                     IF l \in FoundHands(results.hands) THEN got[1][l]
                     ELSE UNKNOWN]
             /\ handPos' = got[2]
     ELSE UNCHANGED <<handState, handPos>>
  /\ lastOp' = "results"
  /\ UNCHANGED <<now, prevHandState, lastTriggerTime, grandFinale, demons,
                 lastDemonSpawn, killCount, livesRef, lives, gameOver,
                 victory, victorySoundPlayed, gameOverSoundPlayed, particles,
                 screenShake, comboCount, lastKillTime, sounds, ev>>

\* ---- restart -----------------------------------------------------------
\* Mutant: a restart that keeps the particle pool and the spawn timer.
RestartStateKeepingPool ==
  [killCount |-> 0, livesRef |-> MAX_LIVES, lives |-> MAX_LIVES,
   gameOver |-> FALSE, victory |-> FALSE,
   victorySoundPlayed |-> FALSE, gameOverSoundPlayed |-> FALSE,
   demons |-> <<>>, particles |-> particles,
   lastDemonSpawn |-> lastDemonSpawn,
   comboCount |-> 0, lastKillTime |-> 0]

\* The fields restartGame assigns.
RestartState ==
  [killCount |-> 0, livesRef |-> MAX_LIVES, lives |-> MAX_LIVES,
   gameOver |-> FALSE, victory |-> FALSE,
   victorySoundPlayed |-> FALSE, gameOverSoundPlayed |-> FALSE,
   demons |-> <<>>, particles |-> <<>>, lastDemonSpawn |-> 0,
   comboCount |-> 0, lastKillTime |-> 0]

\* Mutant: a restart that also forgets the hands' previous states.
RestartClearingHands ==
  /\ gameOver \/ victory
  /\ killCount' = RestartState.killCount
  /\ livesRef' = RestartState.livesRef
  /\ lives' = RestartState.lives
  /\ gameOver' = RestartState.gameOver
  /\ victory' = RestartState.victory
  /\ victorySoundPlayed' = RestartState.victorySoundPlayed
  /\ gameOverSoundPlayed' = RestartState.gameOverSoundPlayed
  /\ demons' = RestartState.demons
  /\ particles' = RestartState.particles
  /\ lastDemonSpawn' = RestartState.lastDemonSpawn
  /\ comboCount' = RestartState.comboCount
  /\ lastKillTime' = RestartState.lastKillTime
  /\ sounds' = NoSounds
  /\ ev' = NoEvents
  /\ lastOp' = "restart"
  /\ prevHandState' = [l \in Labels |-> UNKNOWN]
  /\ UNCHANGED <<now, handState, handPos, lastTriggerTime,
                 grandFinale, screenShake>>

\* restartGame: the handler of the buttons of the game-over and victory
\* overlays, which are rendered only while gameOver or victory is set.
Restart ==
  /\ gameOver \/ victory
  /\ killCount' = RestartState.killCount
  /\ livesRef' = RestartState.livesRef
  /\ lives' = RestartState.lives
  /\ gameOver' = RestartState.gameOver
  /\ victory' = RestartState.victory
  /\ victorySoundPlayed' = RestartState.victorySoundPlayed
  /\ gameOverSoundPlayed' = RestartState.gameOverSoundPlayed
  /\ demons' = RestartState.demons
  /\ particles' = RestartState.particles
  /\ lastDemonSpawn' = RestartState.lastDemonSpawn
  /\ comboCount' = RestartState.comboCount
  /\ lastKillTime' = RestartState.lastKillTime
  /\ sounds' = NoSounds
  /\ ev' = NoEvents
  /\ lastOp' = "restart"
  /\ UNCHANGED <<now, handState, prevHandState, handPos, lastTriggerTime,
                 grandFinale, screenShake>>

\* ---- the tick ----------------------------------------------------------
ScreenX(px) == ((800 - Max(0, Min(800, px - 100))) * Width) \div 800
ScreenY(py) == (Max(0, Min(900, py - 50)) * Height) \div 900

\* Number of triggerExplosion calls of the pattern of a phase.
PatternExplosions(phase) ==
  CASE phase = 0 -> 5
    [] phase = 1 -> 6
    [] phase = 2 -> 5
    [] phase = 3 -> 7
    [] phase = 4 -> 8
    [] OTHER -> 8

SpawnInterval(kills) == Max(800, 2000 - kills * 20)

\* Mutant: a frame that never takes the two hands for both open.
BothHandsOpenNever == FALSE

BothHandsOpen ==
  /\ ~drawGameOver /\ ~drawVictory
  /\ handState["Left"] = OPEN /\ handState["Right"] = OPEN

\* Mutant: a per-hand step that records the sampled state only when the
\* trigger was not suppressed.
HandStepDeferring(w, hand, bothHandsOpen, t) ==
  LET state == handState[hand]
      screenX == ScreenX(handPos[hand].x)
      screenY == ScreenY(handPos[hand].y)
      normal == ~bothHandsOpen /\ ~drawGameOver /\ ~drawVictory
      justOpened == state = OPEN /\ w.prevHandState[hand] # OPEN
      fire == /\ normal /\ justOpened
              /\ t - w.lastTriggerTime[hand] > TRIGGER_DEBOUNCE
  IN IF fire
     THEN [KillDemonsNearPoint(
             TriggerExplosion([w EXCEPT !.ev.edges = @ \cup {hand},
                                        !.ev.fired = @ \cup {hand}]),
             screenX, screenY, KILL_RADIUS, t)
             EXCEPT !.lastTriggerTime[hand] = t,
                    !.prevHandState[hand] = state]
     ELSE IF justOpened THEN w
     ELSE [w EXCEPT !.prevHandState[hand] = state]

\* Mutant: a trigger on the open state instead of the opening edge.
HandStepOnOpen(w, hand, bothHandsOpen, t) ==
  LET state == handState[hand]
      screenX == ScreenX(handPos[hand].x)
      screenY == ScreenY(handPos[hand].y)
      fire == /\ ~bothHandsOpen /\ ~drawGameOver /\ ~drawVictory
              /\ state = OPEN
              /\ t - w.lastTriggerTime[hand] > TRIGGER_DEBOUNCE
  IN IF fire
     THEN [KillDemonsNearPoint(
             TriggerExplosion([w EXCEPT !.ev.fired = @ \cup {hand}]),
             screenX, screenY, KILL_RADIUS, t)
             EXCEPT !.lastTriggerTime[hand] = t,
                    !.prevHandState[hand] = state]
     ELSE [w EXCEPT !.prevHandState[hand] = state]

\* "Normal trigger" of one hand, then the update of its previous state.
\* ev.edges logs the hands whose justOpened was evaluated to true, ev.fired
\* those whose trigger was accepted.
HandStep(w, hand, bothHandsOpen, t) ==
  LET state == handState[hand]
      screenX == ScreenX(handPos[hand].x)
      screenY == ScreenY(handPos[hand].y)
      normal == ~bothHandsOpen /\ ~drawGameOver /\ ~drawVictory
      justOpened == state = OPEN /\ w.prevHandState[hand] # OPEN
      fire == /\ normal /\ justOpened
              /\ t - w.lastTriggerTime[hand] > TRIGGER_DEBOUNCE
  IN IF fire
     THEN [KillDemonsNearPoint(
             TriggerExplosion([w EXCEPT !.ev.edges = @ \cup {hand},
                                        !.ev.fired = @ \cup {hand}]),
             screenX, screenY, KILL_RADIUS, t)
             EXCEPT !.lastTriggerTime[hand] = t,
                    !.prevHandState[hand] = state]
     ELSE IF normal /\ justOpened
     THEN [w EXCEPT !.ev.edges = @ \cup {hand},
                    !.prevHandState[hand] = state]
     ELSE [w EXCEPT !.prevHandState[hand] = state]

\* The state draw() works on, as one record.
World ==
  [particles |-> particles, demons |-> demons, killCount |-> killCount,
   livesRef |-> livesRef, lives |-> lives, gameOver |-> gameOver,
   victory |-> victory, victorySoundPlayed |-> victorySoundPlayed,
   gameOverSoundPlayed |-> gameOverSoundPlayed, comboCount |-> comboCount,
   lastKillTime |-> lastKillTime, screenShake |-> screenShake,
   lastTriggerTime |-> lastTriggerTime, prevHandState |-> prevHandState,
   grandFinale |-> grandFinale, lastDemonSpawn |-> lastDemonSpawn,
   sounds |-> sounds, ev |-> NoEvents,
   length |-> ParticleCount(particles)]

\* Screen shake expiry at the top of draw().
ExpireShake(w, t) ==
  IF /\ w.screenShake.intensity > 0
     /\ ~(t - w.screenShake.startTime < w.screenShake.duration)
  THEN [w EXCEPT !.screenShake.intensity = 0] ELSE w

\* Combo timeout.
ResetCombo(w, t) ==
  IF t - w.lastKillTime > COMBO_TIMEOUT
  THEN [w EXCEPT !.comboCount = 0] ELSE w

\* The ultimate attack: the active flag and, every FINALE_INTERVAL, the
\* explosions of the pattern of the current phase.
UltimateStep(w, bothHandsOpen, t) ==
  IF bothHandsOpen /\ t - w.grandFinale.lastSpawn > FINALE_INTERVAL
  THEN [Explosions(w, PatternExplosions((t \div PHASE_LENGTH) % 6))
          EXCEPT !.grandFinale = [active |-> bothHandsOpen, lastSpawn |-> t]]
  ELSE [w EXCEPT !.grandFinale.active = bothHandsOpen]

\* Mutant: a spawn scheduler whose cap test admits a pool of MAX_DEMONS.
SpawnStepAtCap(w, x, y, size, t) ==
  IF /\ ~drawGameOver /\ ~drawVictory
     /\ t - w.lastDemonSpawn > SpawnInterval(w.killCount)
     /\ Len(w.demons) <= MAX_DEMONS
  THEN [SpawnDemon(w, x, y, size, t) EXCEPT !.lastDemonSpawn = t]
  ELSE w

\* Spawn scheduler.
SpawnStep(w, x, y, size, t) ==
  IF /\ ~drawGameOver /\ ~drawVictory
     /\ t - w.lastDemonSpawn > SpawnInterval(w.killCount)
     /\ Len(w.demons) < MAX_DEMONS
  THEN [SpawnDemon(w, x, y, size, t) EXCEPT !.lastDemonSpawn = t]
  ELSE w

\* Clear all demons while the ultimate attack is active.
ClearStep(w, bothHandsOpen, t) ==
  IF /\ ~drawGameOver /\ ~drawVictory /\ bothHandsOpen
     /\ \E i \in 1..Len(w.demons) : ~w.demons[i].isDying
  THEN ClearAllDemons(w, t) ELSE w

\* Particle update and compaction at the end of draw().
CompactParticles(w) == [w EXCEPT !.particles = UpdateParticles(@)]

\* Mutant: a draw() whose per-hand loop runs before the demon loop.
DrawHandsFirst(t, x, y, size) ==
  CompactParticles(
    CheckVictory(
      DemonLoop(
        HandStep(
          HandStep(
            ClearStep(
              SpawnStep(
                UltimateStep(ResetCombo(ExpireShake(World, t), t),
                             BothHandsOpen, t),
                x, y, size, t),
              BothHandsOpen, t),
            HandLabels[1], BothHandsOpen, t),
          HandLabels[2], BothHandsOpen, t),
        1, <<>>, t)))

\* draw() at time t; a demon spawned by it is placed at (x, y) with the
\* given size.
Draw(t, x, y, size) ==
  CompactParticles(
    HandStep(
      HandStep(
        CheckVictory(
          DemonLoop(
            ClearStep(
              SpawnStep(
                UltimateStep(ResetCombo(ExpireShake(World, t), t),
                             BothHandsOpen, t),
                x, y, size, t),
              BothHandsOpen, t),
            1, <<>>, t)),
        HandLabels[1], BothHandsOpen, t),
      HandLabels[2], BothHandsOpen, t))

\* One animation frame, dt milliseconds after the previous one.
Tick(dt, limit, x, y, size) ==
  /\ dt > 0
  /\ now + dt <= limit
  /\ InSpawnArea(x, y)
  /\ \E w \in {Draw(now + dt, x, y, size)} :
        /\ now' = now + dt
        /\ particles' = w.particles
        /\ demons' = w.demons
        /\ killCount' = w.killCount
        /\ livesRef' = w.livesRef
        /\ lives' = w.lives
        /\ gameOver' = w.gameOver
        /\ victory' = w.victory
        /\ victorySoundPlayed' = w.victorySoundPlayed
        /\ gameOverSoundPlayed' = w.gameOverSoundPlayed
        /\ comboCount' = w.comboCount
        /\ lastKillTime' = w.lastKillTime
        /\ screenShake' = w.screenShake
        /\ lastTriggerTime' = w.lastTriggerTime
        /\ prevHandState' = w.prevHandState
        /\ grandFinale' = w.grandFinale
        /\ lastDemonSpawn' = w.lastDemonSpawn
        /\ sounds' = w.sounds
        /\ ev' = w.ev
        /\ lastOp' = "tick"
        /\ UNCHANGED <<handState, handPos>>

\* ---- initial state -----------------------------------------------------
Init ==
  /\ now = T0
  /\ handState = [l \in Labels |-> UNKNOWN]
  /\ prevHandState = [l \in Labels |-> UNKNOWN]
  /\ handPos = [l \in Labels |-> [x |-> 0, y |-> 0]]
  /\ lastTriggerTime = [l \in Labels |-> 0]
  /\ grandFinale = [active |-> FALSE, lastSpawn |-> 0]
  /\ demons = <<>>
  /\ lastDemonSpawn = 0
  /\ killCount = 0
  /\ livesRef = MAX_LIVES
  /\ lives = MAX_LIVES
  /\ gameOver = FALSE
  /\ victory = FALSE
  /\ victorySoundPlayed = FALSE
  /\ gameOverSoundPlayed = FALSE
  /\ particles = <<>>
  /\ screenShake = [intensity |-> 0, duration |-> 0, startTime |-> 0]
  /\ comboCount = 0
  /\ lastKillTime = 0
  /\ sounds = NoSounds
  /\ ev = NoEvents
  /\ lastOp = "init"

\* ---- inputs -------------------------------------------------------------
\* A wrist at (0.8, 0.45) maps to the screen point (200, 400).
Wrist == [x |-> 800, y |-> 450]
NearSpot == <<200, 400>>
DemonSizes == {80}

Absent == "absent"

\* avgDist of the landmarks of a hand reported as fist or open.
AvgDistOf(g) == IF g = FIST THEN 200 ELSE 300

Entries(label, g) ==
  IF g = Absent THEN <<>> ELSE <<HandEntry(label, Wrist, AvgDistOf(g))>>

\* The result of the tracker for a left and a right gesture.
Snapshot(l, r) ==
  [hasLists |-> TRUE, hands |-> Entries("Left", l) \o Entries("Right", r)]

\* A result that carries no multiHandLandmarks / multiHandedness.
NoLists == [hasLists |-> FALSE, hands |-> <<>>]

\* ---- specifications ----------------------------------------------------
\* Slow frames, one every 2500 ms (a throttled animation loop): a demon is
\* spawned at almost every tick, so a session reaches the victory quota and
\* the loss of every life, and a demon is seen at an age of exactly
\* DEMON_ESCAPE_TIME.  The tracker delivers a result between two frames,
\* once every six frames.
SlowTicks == 34
SlowLimit == T0 + SlowTicks * 2500
SlowGestures == {<<FIST, Absent>>, <<OPEN, Absent>>, <<OPEN, OPEN>>}

SlowTick ==
  \E size \in DemonSizes : Tick(2500, SlowLimit, NearSpot[1], NearSpot[2], size)

SlowResults ==
  /\ lastOp # "results"
  /\ (now - T0) % (6 * 2500) = 0
  /\ \E g \in SlowGestures : OnResults(Snapshot(g[1], g[2]))

Next == SlowTick \/ SlowResults \/ Restart

Spec == Init /\ [][Next]_vars

\* ---- session claims ----------------------------------------------------
PoolIndex == 1..Len(demons)

\* C1: the game-over flag and the victory flag are never both set.
C1_FlagsExclusive == ~(gameOver /\ victory)

\* C2: the lives counter stays within 0..MAX_LIVES.
C2_LivesInRange ==
  /\ livesRef \in 0..MAX_LIVES
  /\ lives \in 0..MAX_LIVES

\* C3: once game-over or victory is set, no tick spawns a demon, lets a demon
\* escape, fires a per-hand explosion, changes the kill count or activates
\* the ultimate attack.
C3_TerminalFreezes ==
  [][ ((gameOver \/ victory) /\ now' # now) =>
        /\ ev'.spawned = {}
        /\ ev'.escaped = {} /\ livesRef' = livesRef
        /\ ev'.fired = {}
        /\ killCount' = killCount
        /\ ~grandFinale'.active ]_vars

\* C4: the tick in which the last life is lost sets game-over and invokes the
\* game-over sound, and within a session the sound is invoked exactly once,
\* however many escapes follow: the number of calls is 1 exactly when the
\* lives are used up, and 0 before.
C4_GameOverSoundOnce ==
  /\ sounds.gameOver = (IF livesRef <= 0 THEN 1 ELSE 0)
  /\ gameOver <=> livesRef <= 0
  /\ gameOverSoundPlayed <=> livesRef <= 0

\* An escape of the last tick found the lives already used up; one call.
C4_Witness ==
  /\ lastOp = "tick" /\ ev.escapeCalls > 0
  /\ livesRef + ev.escapeCalls <= 0
  /\ sounds.gameOver = 1

\* C5: victory is set and the victory sound invoked exactly once per session,
\* at the first victory check that sees the quota reached (the kills of a
\* per-hand trigger come after the check of their tick); later kills do not
\* invoke the sound again.
C5_VictoryOnce ==
  /\ sounds.victory = (IF victory THEN 1 ELSE 0)
  /\ victory <=> victorySoundPlayed
  /\ victory <=> killCount - Cardinality(ev.handKills) >= VICTORY_KILLS

\* The last tick began with the quota reached and killed again; one call.
C5_Witness ==
  /\ lastOp = "tick" /\ victory /\ sounds.victory = 1
  /\ ev.finaleKills \cup ev.handKills # {}
  /\ killCount - Cardinality(ev.finaleKills) - Cardinality(ev.handKills)
       >= VICTORY_KILLS

\* C6: a demon that is not killed starts dying by escape at the first tick
\* with now - spawnTime > DEMON_ESCAPE_TIME, not at DEMON_ESCAPE_TIME
\* exactly, and costs exactly one life, once.
C6_EscapeOnce ==
  /\ [](\A i \in PoolIndex :
          /\ ~demons[i].isDying => now - demons[i].spawnTime <= DEMON_ESCAPE_TIME
          /\ demons[i].escaped =>
               demons[i].isDying /\ now - demons[i].spawnTime > DEMON_ESCAPE_TIME)
  /\ [][ now' # now =>
           /\ livesRef' = livesRef - Cardinality(ev'.escaped)
           /\ ev'.escapeCalls = Cardinality(ev'.escaped)
           /\ \A id \in ev'.escaped :
                /\ now' - id > DEMON_ESCAPE_TIME
                /\ \E i \in PoolIndex :
                     /\ demons[i].spawnTime = id
                     /\ ~demons[i].escaped /\ ~demons[i].isDying
           /\ \A i \in PoolIndex :
                ( /\ ~demons[i].isDying
                  /\ now' - demons[i].spawnTime > DEMON_ESCAPE_TIME
                  /\ demons[i].spawnTime \notin ev'.finaleKills )
                => demons[i].spawnTime \in ev'.escaped ]_vars

\* One demon has just escaped while another, DEMON_ESCAPE_TIME old, has not.
C6_Witness ==
  /\ lastOp = "tick"
  /\ \E i \in PoolIndex :
       demons[i].escaped /\ demons[i].spawnTime \in ev.escaped
  /\ \E j \in PoolIndex :
       ~demons[j].isDying /\ now - demons[j].spawnTime = DEMON_ESCAPE_TIME

\* C7: immediately after restart lives = MAX_LIVES, kill count = 0, both
\* pools are empty, both flags and both sound markers are cleared, and the
\* spawn timer, the combo count and the last-kill time are reset.
C7_RestartResets ==
  lastOp = "restart" =>
    /\ livesRef = MAX_LIVES /\ lives = MAX_LIVES
    /\ killCount = 0
    /\ demons = <<>> /\ particles = <<>>
    /\ ~gameOver /\ ~victory
    /\ ~victorySoundPlayed /\ ~gameOverSoundPlayed
    /\ lastDemonSpawn = 0 /\ comboCount = 0 /\ lastKillTime = 0

\* A restart of a session in which demons were killed by a punch.
C7_Witness == lastOp = "restart" /\ screenShake.startTime > 0

\* C8: at most one of {killed, escaped} sets the dying flag of a demon: no
\* demon is both escaped and killed, and no demon escapes in the tick that
\* kills it.
C8_KilledXorEscaped ==
  /\ \A i \in PoolIndex :
       /\ ~(demons[i].escaped /\ demons[i].deathTime # 0)
       /\ demons[i].isDying <=> (demons[i].escaped \/ demons[i].deathTime # 0)
  /\ ev.escaped \cap (ev.finaleKills \cup ev.handKills) = {}

\* The pool holds a demon that escaped and a demon that was killed.
C8_Witness ==
  \E i, j \in PoolIndex : demons[i].escaped /\ demons[j].deathTime # 0

\* ---- particle cap ------------------------------------------------------
\* Frames of 16 ms, a tracker result every second frame: punches and the
\* ultimate attack fill the particle pool up to the cap and beyond.
FinaleTicks == 14
FinaleLimit == T0 + FinaleTicks * 16

FinaleTick ==
  \E size \in DemonSizes : Tick(16, FinaleLimit, NearSpot[1], NearSpot[2], size)

FinaleResults ==
  /\ lastOp # "results"
  /\ (now - T0) % (2 * 16) = 0
  /\ \E g \in SlowGestures : OnResults(Snapshot(g[1], g[2]))

NextFinale == FinaleTick \/ FinaleResults

SpecFinale == Init /\ [][NextFinale]_vars

\* C9: triggerExplosion called with more than MAX_PARTICLES live particles
\* is a no-op: no particle added, the pool unchanged, no explosion audio call.
C9_NoOpAboveCap ==
  /\ [](\A c \in ev.explosions :
          c.before > MAX_PARTICLES => c.after = c.before /\ c.audio = 0)
  /\ [][ ( /\ now' # now
           /\ ev'.explosions # {}
           /\ \A c \in ev'.explosions : c.before > MAX_PARTICLES )
         => particles' = UpdateParticles(particles) ]_vars

\* The last tick called triggerExplosion with more than MAX_PARTICLES
\* particles, at a pool that an earlier call of the same tick had filled.
C9_Witness ==
  /\ lastOp = "tick"
  /\ \E c \in ev.explosions : c.before > MAX_PARTICLES
  /\ \E c \in ev.explosions : c.after > c.before

\* C10: triggerExplosion called with exactly MAX_PARTICLES live particles
\* adds no particles.
C10_NoOpAtCap ==
  \A c \in ev.explosions : c.before = MAX_PARTICLES => c.after = c.before

\* ---- composition of an explosion ---------------------------------------
ParticleTypes == {"core", "glow", "spark", "flame", "debris", "trail", "smoke"}

\* Particles of a type that a call of the claimed composition pushes.
ClaimedPerExplosion(type) ==
  CASE type = "core" -> 1
    [] type = "glow" -> 1
    [] type = "spark" -> 8
    [] type = "flame" -> 6 + 10
    [] type = "debris" -> 10
    [] type = "trail" -> 6
    [] type = "smoke" -> 3

\* A particle pushed with alpha 1 and a positive decay, after the one update
\* of the tick that pushed it.
IsFresh(g) == g.decay > 0 /\ g.alpha + g.decay = ALPHA_ONE

RECURSIVE FreshInGroups(_, _, _)
FreshInGroups(gs, i, types) ==
  IF i > Len(gs) THEN 0
  ELSE (IF gs[i].type \in types /\ IsFresh(gs[i]) THEN gs[i].n ELSE 0)
         + FreshInGroups(gs, i + 1, types)

\* Number of particles of the given types in the pool that the last tick
\* pushed.
RECURSIVE FreshFrom(_, _, _)
FreshFrom(ps, i, types) ==
  IF i > Len(ps) THEN 0
  ELSE ps[i].k * FreshInGroups(ps[i].groups, 1, types)
         + FreshFrom(ps, i + 1, types)

\* The triggerExplosion calls of the last tick that passed the cap test.
Emitting == {c \in ev.explosions : c.audio = 1}

\* C11: a triggerExplosion call that is not suppressed by the cap appends
\* exactly 45 particles: 1 core, 1 glow, 8 spark, 16 flame, 10 debris,
\* 6 trail and 3 smoke, each with alpha 1 and a positive decay.  After a
\* tick the particles it pushed are, per type, the claimed number times the
\* number of emitting calls, and they are all that joined the pool.
C11_ExplosionComposition ==
  /\ \A c \in Emitting : c.after = c.before + 45
  /\ \A type \in ParticleTypes :
       FreshFrom(particles, 1, {type})
         = Cardinality(Emitting) * ClaimedPerExplosion(type)
  /\ FreshFrom(particles, 1, ParticleTypes) = 45 * Cardinality(Emitting)

\* A tick with several emitting calls.
C11_Witness ==
  /\ lastOp = "tick" /\ Cardinality(Emitting) >= 2
  /\ FreshFrom(particles, 1, ParticleTypes) = 45 * Cardinality(Emitting)

\* ---- particle lifetime --------------------------------------------------
\* The particles of a pool, as the set of their (type, alpha, decay).
PoolGroups(ps) ==
  {ps[i].groups[j] : <<i, j>> \in
     {<<i, j>> \in (1..Len(ps)) \X (1..Len(ExplosionParticles)) :
        j <= Len(ps[i].groups)}}

PoolKinds(ps) ==
  {[type |-> g.type, alpha |-> g.alpha, decay |-> g.decay] : g \in PoolGroups(ps)}

RECURSIVE KindInGroups(_, _, _)
KindInGroups(gs, i, kind) ==
  IF i > Len(gs) THEN 0
  ELSE (IF /\ gs[i].type = kind.type /\ gs[i].alpha = kind.alpha
           /\ gs[i].decay = kind.decay
        THEN gs[i].n ELSE 0) + KindInGroups(gs, i + 1, kind)

\* Number of particles of a kind in the pool.
RECURSIVE KindCount(_, _, _)
KindCount(ps, i, kind) ==
  IF i > Len(ps) THEN 0
  ELSE ps[i].k * KindInGroups(ps[i].groups, 1, kind)
         + KindCount(ps, i + 1, kind)

\* C12: alpha never increases from one tick to the next, a particle is
\* removed in the tick in which its alpha first becomes <= 0, and after
\* every tick the pool holds no particle with alpha <= 0.  Across a tick,
\* the particles of every kind of the pool either all reappear with a
\* lower alpha or, when that alpha is <= 0, are all gone, and every particle
\* of the new pool that the tick did not push is one of these.
C12_ParticleFade ==
  /\ [](\A g \in PoolGroups(particles) : ~ParticleIsDead(g))
  /\ [][ now' # now =>
          /\ \A kind \in PoolKinds(particles) :
               LET next == [kind EXCEPT !.alpha = @ - kind.decay]
               IN /\ next.alpha <= kind.alpha
                  /\ KindCount(particles', 1, next) =
                       IF ParticleIsDead(next) THEN 0
                       ELSE KindCount(particles, 1, kind)
          /\ \A kind \in PoolKinds(particles') :
               IsFresh(kind) \/
                 [kind EXCEPT !.alpha = @ + kind.decay] \in PoolKinds(particles)
       ]_vars

\* The core flash of the oldest explosion has been removed, the rest of it
\* is still fading.
C12_Witness ==
  /\ lastOp = "tick" /\ Len(particles) > 0
  /\ Len(particles[1].groups) < Len(ExplosionParticles)
  /\ \A g \in PoolGroups(particles) : g.type # "core" \/ IsFresh(g)

\* ---- combo ---------------------------------------------------------------
\* Frames every 500 ms: a demon is spawned every fourth frame, and kills are
\* 500 ms, 1000 ms, exactly COMBO_TIMEOUT or more apart.  The tracker may
\* deliver a result between any two frames, with or without hand lists.
ComboTicks == 10
ComboLimit == T0 + ComboTicks * 500

ComboTick ==
  \E size \in DemonSizes : Tick(500, ComboLimit, NearSpot[1], NearSpot[2], size)

ComboSnapshots == {Snapshot(g[1], g[2]) : g \in SlowGestures} \cup {NoLists}

ComboResults ==
  /\ lastOp # "results"
  /\ \E results \in ComboSnapshots : OnResults(results)

NextCombo == ComboTick \/ ComboResults

SpecCombo == Init /\ [][NextCombo]_vars

C13_WitnessAtTimeout ==
  /\ lastOp = "tick" /\ Cardinality(ev.handKills) = 1 /\ comboCount = 1
  /\ killCount = 2 /\ ev.finaleKills = {}

\* ---- per-hand trigger ---------------------------------------------------
\* C14: a hand that stays open over consecutive ticks fires at most once,
\* only at the tick where its previous tick-sampled state was not open, and
\* an opening edge less than TRIGGER_DEBOUNCE after the hand's last accepted
\* trigger is rejected.  An accepted trigger stamps the hand's trigger time,
\* and every tick records the sampled state as the previous one.
C14_EdgeAndDebounce ==
  [][ now' # now =>
        \A h \in Labels :
          /\ h \in ev'.fired =>
               /\ handState[h] = OPEN /\ prevHandState[h] # OPEN
               /\ ~(now' - lastTriggerTime[h] < TRIGGER_DEBOUNCE)
               /\ lastTriggerTime'[h] = now'
          /\ h \notin ev'.fired => lastTriggerTime'[h] = lastTriggerTime[h]
          /\ prevHandState'[h] = handState[h] ]_vars

\* An opening edge of the left hand within the debounce window was rejected.
C14_Witness ==
  /\ lastOp = "tick" /\ "Left" \in ev.edges /\ "Left" \notin ev.fired
  /\ now - lastTriggerTime["Left"] < TRIGGER_DEBOUNCE
  /\ prevHandState["Left"] = OPEN

\* ---- gesture snapshots --------------------------------------------------
\* C15: after every snapshot delivered by the tracker, each hand label not
\* present in it has state UNKNOWN, also when the snapshot carries no hand
\* list at all.
C15_AbsentIsUnknown ==
  [][ \A results \in ComboSnapshots :
        OnResults(results) =>
          \A h \in Labels \ FoundHands(results.hands) :
            handState'[h] = UNKNOWN ]_vars

\* ---- kills ---------------------------------------------------------------
\* The demons killed by the last tick, by the hit test or by the ultimate
\* attack.
Killed == ev.handKills \cup ev.finaleKills

\* C16: every kill, by the per-hand hit test or by the ultimate attack,
\* increments the kill count and the combo, updates the last-kill time and
\* overwrites the screen shake with intensity 8 + 2 * comboCount and
\* duration SHAKE_DURATION.
C16_EveryKillCounts ==
  [][ (now' # now /\ Killed' # {}) =>
        /\ killCount' = killCount + Cardinality(Killed')
        /\ lastKillTime' = now'
        /\ comboCount' =
             (IF now' - lastKillTime < COMBO_TIMEOUT THEN comboCount ELSE 0)
               + Cardinality(Killed')
        /\ screenShake' = [intensity |-> 8 + 2 * comboCount',
                           duration |-> SHAKE_DURATION,
                           startTime |-> now'] ]_vars

\* C17: a demon is eligible for kill or escape only after its fade-in has
\* completed: no demon is killed or escapes while its alpha is below 1.0.
\* (fadeFrom of a dying demon is its alpha when it was killed or escaped.)
C17_EligibleWhenFadedIn ==
  \A i \in PoolIndex : demons[i].isDying => demons[i].fadeFrom = ALPHA_ONE

\* ---- ultimate attack ----------------------------------------------------
\* C18: the ultimate attack is active in a tick exactly when both hands are
\* open and the session is active, and in a tick where it is active no
\* per-hand trigger fires and no hit test runs, even for a hand that has
\* just opened.
C18_UltimateActivation ==
  [][ now' # now =>
        /\ grandFinale'.active <=>
             /\ handState["Left"] = OPEN /\ handState["Right"] = OPEN
             /\ ~gameOver /\ ~victory
        /\ grandFinale'.active =>
             ev'.edges = {} /\ ev'.fired = {} /\ ev'.handKills = {} ]_vars

\* Frames every 16 ms with one stalled frame of 2000 ms, after which the
\* spawn scheduler is due again: a demon is spawned while the pool is full
\* of the particles of the ultimate attack.
StallTicks == 8
StallLimit == T0 + 2000 + StallTicks * 16

StallTick ==
  \E dt \in {16, 2000}, size \in DemonSizes :
    /\ dt = 16 => (now + dt - T0) % 2000 <= StallTicks * 16
    /\ Tick(dt, StallLimit, NearSpot[1], NearSpot[2], size)

StallResults ==
  /\ lastOp # "results"
  /\ (now - T0) % (2 * 16) = 0
  /\ \E g \in SlowGestures : OnResults(Snapshot(g[1], g[2]))

NextStall == StallTick \/ StallResults

SpecStall == Init /\ [][NextStall]_vars

\* The demons of the pool that are not dying.
Alive == {demons[i].spawnTime : i \in {j \in PoolIndex : ~demons[j].isDying}}

\* In a tick where the ultimate attack is active, every non-dying demon,
\* one spawned in that tick included, is killed and counted once, and none
\* remains at the end of the tick.
UltimateClears ==
  [][ (now' # now /\ grandFinale'.active) =>
        /\ ev'.finaleKills = Alive \cup ev'.spawned
        /\ killCount' = killCount + Cardinality(ev'.finaleKills)
        /\ Alive' = {}
        /\ {b.demon : b \in ev'.blasts} = ev'.finaleKills ]_vars

\* C19 (as stated): ... and an explosion of 45 new particles is emitted at
\* each killed demon.
C19_ExplosionAtEachKill ==
  /\ UltimateClears
  /\ [](\A b \in ev.blasts : b.added = 45)

\* C19 (amended): ... and triggerExplosion is called at each killed demon; it
\* adds 45 particles unless the pool already holds more than MAX_PARTICLES,
\* in which case it adds none.
C19_ExplosionUnlessCapped ==
  /\ UltimateClears
  /\ [](\A b \in ev.blasts :
          b.added = IF b.before > MAX_PARTICLES THEN 0 ELSE 45)

\* A demon spawned during the ultimate attack was killed in the tick that
\* spawned it, with the pool above the cap.
C19_Witness ==
  /\ lastOp = "tick" /\ grandFinale.active
  /\ ev.spawned # {} /\ ev.finaleKills = ev.spawned
  /\ \E b \in ev.blasts : b.before > MAX_PARTICLES /\ b.added = 0

\* ---- fade-out of a dying demon -------------------------------------------
\* Frames every 500 ms and a tracker that reports the left hand between two
\* frames, once every eight frames: demons fade in by 0.05 a frame, escape
\* at alpha 0.5 and fade out over several frames, before and after the last
\* life is lost.
FadeTicks == 28
FadeLimit == T0 + FadeTicks * 500
FadeGestures == {<<FIST, Absent>>, <<OPEN, Absent>>}

FadeTick ==
  \E size \in DemonSizes : Tick(500, FadeLimit, NearSpot[1], NearSpot[2], size)

FadeResults ==
  /\ lastOp # "results"
  /\ (now - T0) % (8 * 500) = 0
  /\ \E g \in FadeGestures : OnResults(Snapshot(g[1], g[2]))

NextFade == FadeTick \/ FadeResults \/ Restart

SpecFade == Init /\ [][NextFade]_vars

\* The demon of the pool spawned at time s.
DemonAt(pool, s) ==
  pool[CHOOSE i \in 1..Len(pool) : pool[i].spawnTime = s]

SpawnTimes(pool) == {pool[i].spawnTime : i \in 1..Len(pool)}

CrowdSlowTicks == 56
CrowdFastTicks == 12
CrowdLimit == T0 + CrowdSlowTicks * 2001 + CrowdFastTicks * 900
CrowdGestures == {<<OPEN, OPEN>>, <<Absent, Absent>>}

CrowdTick ==
  \E size \in DemonSizes :
    Tick(IF handState["Left"] = OPEN /\ handState["Right"] = OPEN
         THEN 2001 ELSE 900,
         CrowdLimit, NearSpot[1], NearSpot[2], size)

CrowdResults ==
  /\ lastOp # "results"
  /\ (now - T0) % (14 * 2001) = 0
  /\ \E g \in CrowdGestures : OnResults(Snapshot(g[1], g[2]))

NextCrowd == CrowdTick \/ CrowdResults

SpecCrowd == Init /\ [][NextCrowd]_vars

\* C21: a tick spawns at most one demon, and only when the pool holds fewer
\* than MAX_DEMONS demons (dying ones included) and
\* now - lastSpawn > max(800, 2000 - 20 * killCount); the pool never holds
\* more than MAX_DEMONS demons.
C21_SpawnCap ==
  /\ [](Len(demons) <= MAX_DEMONS)
  /\ [][ now' # now =>
          /\ Len(demons') <= Len(demons) + 1
          /\ ev'.spawned \in {{}, {now'}}
          /\ ev'.spawned # {} =>
               /\ Len(demons) < MAX_DEMONS
               /\ now' - lastDemonSpawn > Max(800, 2000 - 20 * killCount)
               /\ lastDemonSpawn' = now'
          /\ ev'.spawned = {} => lastDemonSpawn' = lastDemonSpawn ]_vars

\* A spawn was due in the last tick and the full pool held it back.
C21_Witness ==
  /\ lastOp = "tick" /\ ev.spawned = {}
  /\ now - lastDemonSpawn > Max(800, 2000 - 20 * killCount)
  /\ Len(demons) = MAX_DEMONS - 1

\* ---- debounce -------------------------------------------------------------
\* Frames every 125 ms and a tracker that may deliver a result between any
\* two frames: a hand can close and open again exactly TRIGGER_DEBOUNCE
\* after its last trigger.
DebounceTicks == 7
DebounceLimit == T0 + DebounceTicks * 125
DebounceGestures ==
  {<<FIST, Absent>>, <<OPEN, Absent>>, <<OPEN, FIST>>, <<FIST, OPEN>>,
   <<OPEN, OPEN>>}

DebounceTick ==
  \E size \in DemonSizes :
    Tick(125, DebounceLimit, NearSpot[1], NearSpot[2], size)

DebounceResults ==
  /\ lastOp # "results"
  /\ \E g \in DebounceGestures : OnResults(Snapshot(g[1], g[2]))

NextDebounce == DebounceTick \/ DebounceResults

SpecDebounce == Init /\ [][NextDebounce]_vars

\* C22: outside the ultimate attack in an active session, an opening edge of
\* a hand fires whenever at least TRIGGER_DEBOUNCE has elapsed since that
\* hand's last trigger, exactly TRIGGER_DEBOUNCE included, and then sets the
\* hand's trigger time to now.
C22_FiresAtDebounce ==
  [][ now' # now =>
        \A h \in Labels :
          ( /\ ~gameOver /\ ~victory
            /\ ~(handState["Left"] = OPEN /\ handState["Right"] = OPEN)
            /\ handState[h] = OPEN /\ prevHandState[h] # OPEN
            /\ now' - lastTriggerTime[h] >= TRIGGER_DEBOUNCE )
          => (h \in ev'.fired /\ lastTriggerTime'[h] = now') ]_vars

\* ---- particle ceiling -----------------------------------------------------
\* C23: the live particle count never exceeds 845, the ceiling of
\* MAX_PARTICLES plus one explosion of 45, whatever the number of explosions
\* requested in a tick: neither after any triggerExplosion call within a
\* tick nor at the end of a tick.
C23_ParticleCeiling ==
  /\ ParticleCount(particles) <= MAX_PARTICLES + 45
  /\ \A c \in ev.explosions :
       c.before <= MAX_PARTICLES + 45 /\ c.after <= MAX_PARTICLES + 45

\* A tick of the ultimate attack in which the pool reached 845 particles and
\* a later call was suppressed.
C23_Witness ==
  /\ lastOp = "tick" /\ grandFinale.active
  /\ \E c \in ev.explosions : c.after = MAX_PARTICLES + 45 /\ c.audio = 1
  /\ \E c \in ev.explosions : c.before = MAX_PARTICLES + 45 /\ c.audio = 0

\* ---- conservation ---------------------------------------------------------
\* Kills and lost lives of the session.
Settled == killCount + (MAX_LIVES - lives)

\* The dying demons of the pool.
Dying == {demons[i].spawnTime : i \in {j \in PoolIndex : demons[j].isDying}}

\* The demons that the last tick killed or let escape.
Ended == ev.finaleKills \cup ev.handKills \cup ev.escaped

\* C24: per session, at every tick boundary, kill count + (MAX_LIVES - lives)
\* is the number of demons spawned since the last restart that are dying or
\* already removed; each demon contributes at most 1, and only dying demons
\* are removed from the pool.  Stated by induction over the session: a
\* restart leaves the sum at 0 with an empty pool, and a tick raises the sum
\* by the number of demons that stopped being alive in it, each killed or
\* escaped once; a dying demon stays dying.
C24_Conservation ==
  /\ [](lives = livesRef /\ Cardinality(Dying) <= Settled)
  /\ [][ lastOp' = "restart" => Settled' = 0 /\ demons' = <<>> ]_vars
  /\ [][ now' # now =>
          /\ Ended' = (Alive \cup ev'.spawned) \ Alive'
          /\ Settled' = Settled + Cardinality(Ended')
          /\ Cardinality(Ended') =
               Cardinality(ev'.finaleKills) + Cardinality(ev'.handKills)
                 + Cardinality(ev'.escaped)
          /\ SpawnTimes(demons) \ SpawnTimes(demons') \subseteq Dying \cup Ended'
          /\ Dying \cap SpawnTimes(demons') \subseteq Dying' ]_vars

\* A tick in which one demon escaped and a punch killed others, after
\* earlier kills or escapes of the session.
C24_Witness ==
  /\ lastOp = "tick" /\ ev.escaped # {} /\ ev.handKills # {}
  /\ Settled > Cardinality(Ended) /\ Cardinality(Dying) < Settled

\* ---- order within a tick --------------------------------------------------
\* The demons that are due to escape at time t.
Overdue(t) ==
  {demons[i].spawnTime : i \in
     {j \in PoolIndex : ~demons[j].isDying /\ ~demons[j].escaped
                          /\ t - demons[j].spawnTime > DEMON_ESCAPE_TIME}}

\* C25: within a tick the kill pass of the ultimate attack runs before the
\* escape check, and the escape check before the per-hand hit test: no life
\* is lost in a tick where the ultimate attack is active (an overdue demon is
\* killed by it), and otherwise a demon older than DEMON_ESCAPE_TIME escapes,
\* costing a life, rather than being killed by a punch of that tick.
C25_OrderWithinTick ==
  [][ now' # now =>
        IF grandFinale'.active
        THEN /\ ev'.escaped = {} /\ livesRef' = livesRef /\ lives' = lives
             /\ Overdue(now') \subseteq ev'.finaleKills
        ELSE /\ ev'.escaped = Overdue(now')
             /\ ev'.handKills \cap Overdue(now') = {}
             /\ livesRef' = livesRef - Cardinality(Overdue(now')) ]_vars

\* A punch landed in the tick in which a demon within its range escaped; it
\* killed the younger demons only.
C25_Witness ==
  /\ lastOp = "tick" /\ ev.fired # {} /\ ev.handKills # {}
  /\ Cardinality(ev.escaped) = 1 /\ ~grandFinale.active
  /\ \A s \in ev.handKills : now - s <= DEMON_ESCAPE_TIME

\* The ultimate attack killed a demon that was due to escape.
C25_WitnessUltimate ==
  /\ lastOp = "tick" /\ grandFinale.active
  /\ \E s \in ev.finaleKills : now - s > DEMON_ESCAPE_TIME

\* ---- consumed edges -------------------------------------------------------
\* C26: an opening edge that is suppressed, by the debounce or because the
\* ultimate attack is active, is consumed and not deferred: the previous
\* state is recorded at every tick regardless, so after any tick the record
\* equals the sampled state, and a hand whose record is open does not fire,
\* also after the debounce window has ended or the ultimate attack stopped.
C26_EdgeConsumed ==
  /\ [](lastOp = "tick" => prevHandState = handState)
  /\ [][ now' # now =>
          \A h \in Labels :
            /\ (handState[h] = OPEN /\ h \notin ev'.fired)
                 => prevHandState'[h] = OPEN
            /\ prevHandState[h] = OPEN => h \notin ev'.fired ]_vars

\* The left hand opened during the ultimate attack and has never fired; the
\* attack has stopped, the hand is still open and does not fire.
C26_Witness ==
  /\ lastOp = "tick" /\ ~grandFinale.active /\ ev.fired = {}
  /\ handState["Left"] = OPEN /\ prevHandState["Left"] = OPEN
  /\ handState["Right"] = FIST
  /\ lastTriggerTime["Left"] = 0

\* ---- victory detection ----------------------------------------------------
\* Slow frames, one every 2500 ms, and a player who picks a gesture before
\* the first frame and changes it only late in the session, when the quota
\* is near: the tracker delivers a result before the first frame and, from
\* frame QuotaLate on, between any two frames.
QuotaTicks == 33
QuotaLate == 25
QuotaLimit == T0 + QuotaTicks * 2500

QuotaTick ==
  \E size \in DemonSizes : Tick(2500, QuotaLimit, NearSpot[1], NearSpot[2], size)

QuotaResults ==
  /\ lastOp # "results"
  /\ now = T0 \/ now >= T0 + QuotaLate * 2500
  /\ \E g \in SlowGestures : OnResults(Snapshot(g[1], g[2]))

NextQuota == QuotaTick \/ QuotaResults

SpecQuota == Init /\ [][NextQuota]_vars

\* C27: whenever the kill count is at least VICTORY_KILLS at the end of a
\* tick and victory is not yet set, victory is set by the end of the next
\* tick.  Kills by the ultimate attack are seen by the check of their own
\* tick, so the pending case arises only from the per-hand kills of the last
\* tick; the next tick runs its spawn and escape checks before it sets
\* victory.
C27_VictoryByNextTick ==
  /\ []((killCount >= VICTORY_KILLS /\ ~victory) =>
          /\ ev.handKills # {}
          /\ killCount - Cardinality(ev.handKills) < VICTORY_KILLS)
  /\ [][ (now' # now /\ killCount >= VICTORY_KILLS /\ ~victory) =>
          /\ victory' /\ sounds'.victory = 1
          /\ ev'.escaped = Overdue(now')
          /\ (now' - lastDemonSpawn > Max(800, 2000 - 20 * killCount)
                /\ Len(demons) < MAX_DEMONS) => ev'.spawned = {now'} ]_vars

\* A punch has brought the kill count to the quota; victory is pending.
C27_Witness ==
  /\ lastOp = "tick" /\ killCount >= VICTORY_KILLS /\ ~victory
  /\ ev.handKills # {} /\ ev.finaleKills = {}

\* ---- restart and the hands ------------------------------------------------
\* C28: a restart leaves unchanged the current and previous hand states, the
\* hand positions, the per-hand debounce timestamps, the rate-limit
\* timestamp of the ultimate attack and the screen shake; so a hand that was
\* open at the last tick before the restart and is still open at the first
\* tick after it fires no explosion in that tick.
C28_RestartKeepsHands ==
  /\ [][ lastOp' = "restart" =>
          /\ handState' = handState /\ prevHandState' = prevHandState
          /\ handPos' = handPos /\ lastTriggerTime' = lastTriggerTime
          /\ grandFinale' = grandFinale /\ screenShake' = screenShake ]_vars
  /\ [][ (lastOp' = "restart" /\ lastOp = "tick") =>
          \A h \in Labels :
            handState[h] = OPEN => prevHandState'[h] = OPEN ]_vars
  /\ [][ (lastOp = "restart" /\ now' # now) =>
          \A h \in Labels :
            (prevHandState[h] = OPEN /\ handState[h] = OPEN)
              => h \notin ev'.fired ]_vars

\* The first tick after a restart (one demon, spawned in this tick, in a
\* session older than one tick), with the left hand open before and at the
\* tick, no ultimate attack, and no explosion fired.
C28_Witness ==
  /\ lastOp = "tick" /\ now > T0 + 2500
  /\ Len(demons) = 1 /\ demons[1].spawnTime = now
  /\ killCount = 0 /\ livesRef = MAX_LIVES
  /\ handState["Left"] = OPEN /\ prevHandState["Left"] = OPEN
  /\ handState["Right"] # OPEN /\ ~grandFinale.active
  /\ ev.edges = {} /\ ev.fired = {}

\* ---- one trigger per tick -------------------------------------------------
\* C29: in any single tick at most one hand fires a per-hand explosion: a
\* hand that fires is open, and the two hands are not both open in that
\* tick, so Left and Right never fire together.
C29_OneTriggerPerTick ==
  /\ [](Cardinality(ev.fired) <= 1)
  /\ [][ now' # now =>
          \A h \in ev'.fired :
            /\ handState[h] = OPEN
            /\ \E o \in Labels : handState[o] # OPEN ]_vars

\* Both hands opened together before the first tick: neither fired.
C29_Witness ==
  /\ lastOp = "tick" /\ now = T0 + 125
  /\ \A h \in Labels : handState[h] = OPEN /\ prevHandState[h] = OPEN
  /\ ev.fired = {}
  /\ \A h \in Labels : lastTriggerTime[h] = 0

\* Each hand fires in its own tick, one after the other.
C29_WitnessInTurn ==
  /\ lastOp = "tick" /\ ev.fired = {"Right"}
  /\ lastTriggerTime["Left"] > 0
  /\ lastTriggerTime["Left"] < lastTriggerTime["Right"]

\* ---- the pool drains ------------------------------------------------------
\* Frames 16 ms apart; the tracker delivers results only during the first
\* DrainBurst frames, and the session runs for DrainTicks frames, so that
\* more than 50 frames follow the last gesture change.
DrainBurst == 3
DrainTicks == 56
DrainLimit == T0 + DrainTicks * 16
DrainGestures == {<<FIST, Absent>>, <<OPEN, Absent>>, <<OPEN, OPEN>>}

DrainTick ==
  \E size \in DemonSizes : Tick(16, DrainLimit, NearSpot[1], NearSpot[2], size)

DrainResults ==
  /\ lastOp # "results"
  /\ now < T0 + DrainBurst * 16
  /\ \E g \in DrainGestures : OnResults(Snapshot(g[1], g[2]))

NextDrain == DrainTick \/ DrainResults

SpecDrain == Init /\ [][NextDrain]_vars

\* The animation loop requests the next frame at the end of every frame, so
\* the frame is weakly fair.  DrainFrame is the clock step of DrainTick:
\* DrainTick has no guard but the session limit and is the only step that
\* moves the clock (FrameIsTick), so weak fairness of DrainFrame on the clock
\* is weak fairness of DrainTick.
DrainFrame == now + 16 <= DrainLimit /\ now' = now + 16

FrameIsTick == [][now' # now => DrainTick]_vars

SpecDrainFair == SpecDrain /\ WF_now(DrainFrame)

\* The number of further updates a particle of group g survives.
ParticleLife(g) ==
  IF g.decay = 10 THEN g.alpha \div 10 + 1
  ELSE (g.alpha + g.decay - 1) \div g.decay

PoolLives(ps) == {ParticleLife(g) : g \in PoolGroups(ps)}

PoolLife(ps) ==
  IF PoolLives(ps) = {} THEN 0
  ELSE CHOOSE m \in PoolLives(ps) : \A l \in PoolLives(ps) : l <= m

\* C30: every particle has a decay of at least 0.02 per tick and is removed
\* within 50 ticks of its creation (a particle left in the pool by a tick has
\* at most 49 updates to live, and every tick without an explosion takes one
\* of them); if from some tick on no explosion is triggered, the pool
\* eventually becomes empty and stays empty.
C30_PoolDrains ==
  /\ [](\A g \in PoolGroups(particles) : g.decay >= 2 /\ ParticleLife(g) <= 49)
  /\ [][ (now' # now /\ ev'.explosions = {}) =>
          (particles' = <<>> \/ PoolLife(particles') < PoolLife(particles)) ]_vars
  /\ (<>[](ev.explosions = {})) => <>[](particles = <<>>)

\* The pool is empty again, 49 frames or more after a hand fired.
C30_Witness ==
  /\ lastOp = "tick" /\ particles = <<>>
  /\ \E h \in Labels :
       lastTriggerTime[h] > 0 /\ now - lastTriggerTime[h] >= 49 * 16

\* The tick before: only the smoke of that explosion is left.
C30_WitnessLastSmoke ==
  /\ lastOp = "tick" /\ PoolLife(particles) = 1
  /\ \A g \in PoolGroups(particles) : g.type = "smoke"
  /\ ev.explosions = {}

====
